---- MODULE Spec2Model ----
(***************************************************************************)
(* Placeholder detection, HTML alignment, value injection, hint attachment *)
(* and export of the DocuSign backend (detector.py, main.py,               *)
(* ai_processor.py).                                                       *)
(*                                                                         *)
(* Texts are sequences of one-character strings.  Python offsets are       *)
(* 0-based and half-open; SubSeq(t, start + 1, end) is t[start:end].       *)
(* A document container (the body, or a table cell) is the sequence of its *)
(* blocks in document order; a block is a paragraph or a table; a table is *)
(* a sequence of rows and a row a sequence of cells (containers).          *)
(* python-docx's container.paragraphs / container.tables are the           *)
(* paragraph blocks / the table blocks of the container, each in order.    *)
(* A paragraph object is identified by its path in the tree.               *)
(***************************************************************************)
EXTENDS Integers, Sequences, FiniteSets, TLC

VARIABLES
    pc,            \* position of the request being served
    doc,           \* the uploaded document (body container)
    all_paragraphs,\* detect_placeholders: the flattened paragraph list
    full_text,     \* detect_placeholders: "\n".join(para_texts)
    fields,        \* results["placeholders"]
    placeholders,  \* the list handed to create_marked_html / fill_docx_placeholders
    sorted_placeholders, \* create_marked_html: sorted(placeholders, key=start)
    idx,           \* create_marked_html: loop index (0-based)
    html,          \* create_marked_html: the evolving HTML
    origin,        \* ghost: for each atom of html its index in the rendered HTML, 0 if inserted
    label_counts,  \* create_marked_html: label -> occurrences consumed
    log,           \* ghost: one entry per processed field (what its step replaced)
    filled,        \* fill_docx_placeholders: the filled document
    redetected,    \* detect_placeholders run again on the filled document
    env,           \* the collaborators' behaviour for this request (key, model, converters)
    resp,          \* the handler's response
    data,          \* generate_field_guidance: what _call_model returned
    guidance       \* generate_field_guidance: guidance_by_id

vars == <<pc, doc, all_paragraphs, full_text, fields, placeholders, sorted_placeholders,
          idx, html, origin, label_counts, log, filled, redetected, env, resp, data, guidance>>

-----------------------------------------------------------------------------
(* Bounds of the model *)

\* number of pieces a generated document text is built from
MaxPieces == 4

\* the same for the documents that are filled or hinted, whose pieces are whole tokens
MaxTokens == 2

-----------------------------------------------------------------------------
(* Text helpers (Python str operations) *)

\* str.isspace for the characters of the model; regex \s
IsSpace(c) == c \in {" ", "\t", "\n"}

\* t[a:b] for 0 <= a, b (Python slice, clamped)
Slice(t, a, b) == SubSeq(t, a + 1, IF b > Len(t) THEN Len(t) ELSE b)

\* t.count(c, 0, n)
Count(t, c, n) == Cardinality({i \in 1..n : i <= Len(t) /\ t[i] = c})

\* t.rfind(c): 0-based index of the last c, -1 if none
RFind(t, c) ==
    LET hits == {i \in 1..Len(t) : t[i] = c}
    IN IF hits = {} THEN -1 ELSE (CHOOSE i \in hits : \A j \in hits : j <= i) - 1

\* t.strip()
Strip(t) ==
    LET keep == {i \in 1..Len(t) : ~IsSpace(t[i])}
    IN IF keep = {} THEN <<>>
       ELSE SubSeq(t, CHOOSE i \in keep : \A j \in keep : i <= j,
                      CHOOSE i \in keep : \A j \in keep : j <= i)

\* k in t, at 1-based position i
OccursAt(t, k, i) == i >= 1 /\ i + Len(k) - 1 <= Len(t) /\ SubSeq(t, i, i + Len(k) - 1) = k

\* k in t
Contains(t, k) == \E i \in 1..(Len(t) + 1) : OccursAt(t, k, i)

RECURSIVE Join(_, _)
\* sep.join(parts)
Join(parts, sep) ==
    IF parts = <<>> THEN <<>>
    ELSE IF Len(parts) = 1 THEN parts[1]
    ELSE parts[1] \o sep \o Join(Tail(parts), sep)

RECURSIVE Concat(_)
Concat(parts) == IF parts = <<>> THEN <<>> ELSE Head(parts) \o Concat(Tail(parts))

RECURSIVE SplitOn(_, _)
\* t.split(c)
SplitOn(t, c) ==
    LET hits == {i \in 1..Len(t) : t[i] = c}
    IN IF hits = {} THEN <<t>>
       ELSE LET i == CHOOSE h \in hits : \A j \in hits : h <= j
            IN <<SubSeq(t, 1, i - 1)>> \o SplitOn(SubSeq(t, i + 1, Len(t)), c)

-----------------------------------------------------------------------------
(* The document tree as python-docx exposes it *)

Para(t, u) == [kind |-> "p", text |-> t, underline |-> u, rows |-> <<>>]
Table(rows) == [kind |-> "tbl", text |-> <<>>, underline |-> FALSE, rows |-> rows]

RECURSIVE Paragraphs(_, _, _)
\* container.paragraphs (from block i on): the paragraph blocks, in order
Paragraphs(container, path, i) ==
    IF i > Len(container) THEN <<>>
    ELSE (IF container[i].kind = "p"
          THEN <<[path |-> Append(path, i), text |-> container[i].text,
                  underline |-> container[i].underline]>>
          ELSE <<>>) \o Paragraphs(container, path, i + 1)

RECURSIVE Tables(_, _, _)
\* container.tables (from block i on): the table blocks, in order
Tables(container, path, i) ==
    IF i > Len(container) THEN <<>>
    ELSE (IF container[i].kind = "tbl"
          THEN <<[path |-> Append(path, i), rows |-> container[i].rows]>>
          ELSE <<>>) \o Tables(container, path, i + 1)

-----------------------------------------------------------------------------
(* detector.py *)

RECURSIVE FlattenCells(_, _, _)
\* for cell in row.cells: all_paragraphs.extend(cell.paragraphs)
FlattenCells(cells, path, c) ==
    IF c > Len(cells) THEN <<>>
    ELSE Paragraphs(cells[c], Append(path, c), 1) \o FlattenCells(cells, path, c + 1)

RECURSIVE FlattenRows(_, _, _)
\* for row in table.rows
FlattenRows(rows, path, r) ==
    IF r > Len(rows) THEN <<>>
    ELSE FlattenCells(rows[r], Append(path, r), 1) \o FlattenRows(rows, path, r + 1)

RECURSIVE FlattenTables(_, _)
\* for table in doc.tables
FlattenTables(tables, t) ==
    IF t > Len(tables) THEN <<>>
    ELSE FlattenRows(tables[t].rows, tables[t].path, 1) \o FlattenTables(tables, t + 1)

\* all_paragraphs = list(doc.paragraphs), extended with the cell paragraphs of doc.tables
flatten(d) == Paragraphs(d, <<>>, 1) \o FlattenTables(Tables(d, <<>>, 1), 1)

\* [p.text or "" for p in all_paragraphs]
ParaTexts(paragraphs) == [i \in 1..Len(paragraphs) |-> paragraphs[i].text]

\* \s*[^\]\n]+\s*\] tried at 1-based position a (the character after "["):
\* the 1-based position of the closing "]", 0 when the body does not match.
\* Neither \s nor [^\]\n] matches "]", so the match ends at the first "]".
BracketBody(text, a) ==
    LET closes == {i \in a..Len(text) : text[i] = "]"}
    IN IF closes = {} THEN 0
       ELSE LET e == CHOOSE i \in closes : \A j \in closes : i <= j
            IN IF \E i \in a..(e - 1) : \E j \in i..(e - 1) :
                      /\ \A k \in a..(i - 1) : IsSpace(text[k])
                      /\ \A k \in i..j : text[k] # "\n"
                      /\ \A k \in (j + 1)..(e - 1) : IsSpace(text[k])
               THEN e ELSE 0

\* \$?\[\s*[^\]\n]+\s*\] tried at 1-based position s
MatchEnd(text, s) ==
    IF text[s] = "$"
    THEN IF s + 1 <= Len(text) /\ text[s + 1] = "[" THEN BracketBody(text, s + 2) ELSE 0
    ELSE IF text[s] = "[" THEN BracketBody(text, s + 1) ELSE 0

RECURSIVE finditer(_, _)
\* re.finditer: leftmost matches, each scan resuming after the previous match
finditer(text, pos) ==
    LET starts == {s \in pos..Len(text) : MatchEnd(text, s) # 0}
    IN IF starts = {} THEN <<>>
       ELSE LET s == CHOOSE i \in starts : \A j \in starts : i <= j
                e == MatchEnd(text, s)
            IN <<[start |-> s - 1, end |-> e]>> \o finditer(text, e + 1)

NoMetadata == [tabs |-> 0, spaces |-> 0, underlined |-> FALSE]

detect_bracketed(text) ==
    LET ms == finditer(text, 1)
    IN [i \in 1..Len(ms) |->
          [type |-> "bracketed",
           value |-> Slice(text, ms[i].start, ms[i].end),
           label |-> <<>>,
           start |-> ms[i].start,
           end |-> ms[i].end,
           line |-> Count(text, "\n", ms[i].start) + 1,
           metadata |-> NoMetadata,
           id |-> ""]]

RECURSIVE build_offsets_from(_, _, _)
build_offsets_from(para_texts, i, cur) ==
    IF i > Len(para_texts) THEN <<>>
    ELSE <<cur>> \o build_offsets_from(para_texts, i + 1,
               cur + Len(para_texts[i]) + (IF i # Len(para_texts) THEN 1 ELSE 0))

\* mutant: the newline separators are not counted
build_offsets_nosep(para_texts) ==
    [i \in 1..Len(para_texts) |-> Len(Concat(SubSeq(para_texts, 1, i - 1)))]

build_offsets(para_texts) == build_offsets_from(para_texts, 1, 0)

\* label = text[:colon_pos].strip(); a label spanning a line break keeps its last line
SignatureLabel(text, colon_pos) ==
    LET label == Strip(Slice(text, 0, colon_pos))
    IN IF \E i \in 1..Len(label) : label[i] = "\n"
       THEN LET parts == SplitOn(label, "\n") IN Strip(parts[Len(parts)])
       ELSE label

\* the body of the loop of detect_signature_lines for paragraph para_idx (1-based here)
SignatureOf(paragraphs, para_texts, text_all, para_offsets, para_idx) ==
    LET text == para_texts[para_idx]
        colon_pos == RFind(text, ":")
        after_colon == Slice(text, colon_pos + 1, Len(text))
        padding_start == para_offsets[para_idx] + colon_pos + 1
        padding_end == para_offsets[para_idx] + Len(text)
    IN IF text = <<>> THEN <<>>
       ELSE IF colon_pos = -1 THEN <<>>
       ELSE IF \/ after_colon = <<>>
               \/ ~(\A i \in 1..Len(after_colon) : after_colon[i] \in {" ", "\t"})
               \/ ~(\E i \in 1..Len(after_colon) : after_colon[i] = "\t")
            THEN <<>>
       ELSE <<[type |-> "signature_line",
               value |-> <<>>,
               label |-> SignatureLabel(text, colon_pos),
               start |-> padding_start,
               end |-> padding_end,
               line |-> Count(text_all, "\n", padding_start) + 1,
               metadata |-> [tabs |-> Count(after_colon, "\t", Len(after_colon)),
                             spaces |-> Count(after_colon, " ", Len(after_colon)),
                             underlined |-> paragraphs[para_idx].underline],
               id |-> ""]>>

RECURSIVE detect_signature_from(_, _, _, _, _)
detect_signature_from(paragraphs, para_texts, text_all, para_offsets, i) ==
    IF i > Len(paragraphs) THEN <<>>
    ELSE SignatureOf(paragraphs, para_texts, text_all, para_offsets, i)
         \o detect_signature_from(paragraphs, para_texts, text_all, para_offsets, i + 1)

detect_signature_lines(paragraphs, para_texts, text_all) ==
    detect_signature_from(paragraphs, para_texts, text_all, build_offsets(para_texts), 1)

RECURSIVE InsertByKey(_, _, _)
\* insert x after every element whose key is <= x's (a stable insertion)
InsertByKey(sorted, x, key) ==
    IF sorted = <<>> THEN <<x>>
    ELSE IF Head(sorted)[key] <= x[key] THEN <<Head(sorted)>> \o InsertByKey(Tail(sorted), x, key)
    ELSE <<x>> \o sorted

RECURSIVE SortByKey(_, _)
\* list.sort(key=lambda x: x[key]) / sorted(...): stable, ascending
SortByKey(list, key) ==
    IF list = <<>> THEN <<>>
    ELSE InsertByKey(SortByKey(SubSeq(list, 1, Len(list) - 1), key), list[Len(list)], key)

\* mutant: the id without its index component
field_id_noindex(type, line, i) == type \o "@L" \o ToString(line)

\* f"{p['type']}@L{p['line']}@{idx}"
field_id(type, line, i) == type \o "@L" \o ToString(line) \o "@" \o ToString(i)

\* the enumerate loop of detect_placeholders (context and label_guess are not
\* modelled: nothing below reads them)
attach_ids(all_placeholders) ==
    [i \in 1..Len(all_placeholders) |->
        [all_placeholders[i] EXCEPT
            !.id = field_id(all_placeholders[i].type, all_placeholders[i].line, i - 1)]]

detect_placeholders(d) ==
    LET paragraphs == flatten(d)
        para_texts == ParaTexts(paragraphs)
        text_all == Join(para_texts, <<"\n">>)
        bracketed == detect_bracketed(text_all)
        signature == detect_signature_lines(paragraphs, para_texts, text_all)
        all_placeholders == attach_ids(SortByKey(bracketed \o signature, "start"))
    IN [all_paragraphs |-> paragraphs,
        full_text |-> text_all,
        placeholders |-> all_placeholders,
        summary |-> [total |-> Len(all_placeholders),
                     bracketed |-> Len(SelectSeq(all_placeholders,
                                         LAMBDA p : p.type = "bracketed")),
                     signature_lines |-> Len(SelectSeq(all_placeholders,
                                         LAMBDA p : p.type = "signature_line"))]]

-----------------------------------------------------------------------------
(* main.py: the paragraphs _replace_text_in_run_container visits, in order *)

RECURSIVE walk(_, _)
RECURSIVE WalkCells(_, _, _)
RECURSIVE WalkRows(_, _, _)
RECURSIVE WalkTables(_, _)

\* for cell in row.cells: _replace_text_in_run_container(cell, replacer)
WalkCells(cells, path, c) ==
    IF c > Len(cells) THEN <<>>
    ELSE walk(cells[c], Append(path, c)) \o WalkCells(cells, path, c + 1)

WalkRows(rows, path, r) ==
    IF r > Len(rows) THEN <<>>
    ELSE WalkCells(rows[r], Append(path, r), 1) \o WalkRows(rows, path, r + 1)

WalkTables(tables, t) ==
    IF t > Len(tables) THEN <<>>
    ELSE WalkRows(tables[t].rows, tables[t].path, 1) \o WalkTables(tables, t + 1)

\* for para in container.paragraphs: ...; for table in container.tables: ... (recursive)
walk(container, path) ==
    Paragraphs(container, path, 1) \o WalkTables(Tables(container, path, 1), 1)

-----------------------------------------------------------------------------
(* Documents the model is run on *)

\* every text that is the concatenation of at most n pieces
Texts(pieces, n) == {Concat(s) : s \in UNION {[1..k -> pieces] : k \in 0..n}}

RECURSIVE CellRows(_)
\* one paragraph per cell, two cells per row
CellRows(paras) ==
    IF paras = <<>> THEN <<>>
    ELSE IF Len(paras) = 1 THEN << << <<Para(paras[1], FALSE)>> >> >>
    ELSE << << <<Para(paras[1], FALSE)>>, <<Para(paras[2], FALSE)>> >> >>
         \o CellRows(SubSeq(paras, 3, Len(paras)))

RECURSIVE Nest(_)
\* each further paragraph one table deeper, in the cell of the paragraph before it
Nest(paras) ==
    IF Len(paras) = 1 THEN <<Para(paras[1], FALSE)>>
    ELSE <<Para(paras[1], FALSE), Table(<< <<Nest(Tail(paras))>> >>)>>

\* a document holding the lines of text t:
\*   flat    one body paragraph per line
\*   soft    one body paragraph, the lines separated by soft line breaks, underlined
\*   table   a table first (the lines after the first, one per cell), then the first line
\*   nested  the first line in the body, each further line one table deeper
Arrange(t, layout) ==
    LET paras == SplitOn(t, "\n")
    IN CASE layout = "flat" -> [i \in 1..Len(paras) |-> Para(paras[i], FALSE)]
         [] layout = "soft" -> <<Para(t, TRUE)>>
         [] layout = "table" -> IF Len(paras) = 1 THEN <<Table(CellRows(paras))>>
                                ELSE <<Table(CellRows(Tail(paras))), Para(paras[1], FALSE)>>
         [] layout = "nested" -> Nest(paras)

Layouts == {"flat", "soft", "table", "nested"}

DocsOf(pieces, n, layouts) == {Arrange(t, l) : t \in Texts(pieces, n), l \in layouts}

DetectPieces == {<<"[">>, <<"]">>, <<"$">>, <<"a">>, <<":">>, <<"\t">>, <<" ">>, <<"\n">>,
                 <<"[", "a", "]">>, <<"a", ":", "\t">>}

DetectDocs == DocsOf(DetectPieces, MaxPieces, Layouts)

NoResp == [status |-> 0]
NoEnv == [kind |-> "none"]
NoData == [j |-> "none"]
NoGuidance == <<>>

-----------------------------------------------------------------------------
(* Detection: detect_placeholders as upload_document calls it *)

InitDetect ==
    /\ pc = "uploaded"
    /\ doc \in DetectDocs
    /\ all_paragraphs = <<>>
    /\ full_text = <<>>
    /\ fields = <<>>
    /\ placeholders = <<>>
    /\ sorted_placeholders = <<>>
    /\ idx = 0
    /\ html = <<>>
    /\ origin = <<>>
    /\ label_counts = <<>>
    /\ log = <<>>
    /\ filled = <<>>
    /\ redetected = <<>>
    /\ env = NoEnv
    /\ resp = NoResp
    /\ data = NoData
    /\ guidance = NoGuidance

\* results = detect_placeholders(str(docx_path))
DetectPlaceholders ==
    /\ pc = "uploaded"
    /\ LET results == detect_placeholders(doc)
       IN /\ all_paragraphs' = results.all_paragraphs
          /\ full_text' = results.full_text
          /\ fields' = results.placeholders
    /\ pc' = "detected"
    /\ UNCHANGED <<doc, placeholders, sorted_placeholders, idx, html, origin, label_counts,
                   log, filled, redetected, env, resp, data, guidance>>

NextDetect == DetectPlaceholders

SpecDetect == InitDetect /\ [][NextDetect]_vars

-----------------------------------------------------------------------------
(* main.py: create_marked_html *)

(* The HTML is a sequence of atoms: a text character, a whole tag (what <[^>]+>   *)
(* matches: the renderer escapes "<", ">" and "&" in text, and the texts of the   *)
(* model hold none of them), or the text of a marker, "__MARKER_<id>__", none of  *)
(* whose characters is a character of the model's texts.                          *)
Chr(c) == [k |-> "c", v |-> c]
Tag(t) == [k |-> "t", v |-> t]
MarkerText(id) == [k |-> "m", v |-> "__MARKER_" \o id \o "__"]

IsTag(atom) == atom.k = "t"
IsSpaceAtom(atom) == atom.k = "c" /\ IsSpace(atom.v)

\* f'<span class="field-marker" data-field-id="{field_id}">__MARKER_{field_id}__</span>'
marker(id) ==
    <<Tag("<span class=\"field-marker\" data-field-id=\"" \o id \o "\">"),
      MarkerText(id), Tag("</span>")>>

RECURSIVE RenderContainer(_, _)
RECURSIVE RenderRows(_, _)
RECURSIVE RenderCells(_, _)

\* a paragraph's text: a soft line break is rendered as a tag
RenderText(t) == [i \in 1..Len(t) |-> IF t[i] = "\n" THEN Tag("<br />") ELSE Chr(t[i])]

RenderCells(cells, c) ==
    IF c > Len(cells) THEN <<>>
    ELSE <<Tag("<td>")>> \o RenderContainer(cells[c], 1) \o <<Tag("</td>")>>
         \o RenderCells(cells, c + 1)

RenderRows(rows, r) ==
    IF r > Len(rows) THEN <<>>
    ELSE <<Tag("<tr>")>> \o RenderCells(rows[r], 1) \o <<Tag("</tr>")>>
         \o RenderRows(rows, r + 1)

\* the blocks in document order; an empty paragraph is not rendered
RenderContainer(container, i) ==
    IF i > Len(container) THEN <<>>
    ELSE (IF container[i].kind = "p"
          THEN IF container[i].text = <<>> THEN <<>>
               ELSE <<Tag("<p>")>> \o RenderText(container[i].text) \o <<Tag("</p>")>>
          ELSE <<Tag("<table>")>> \o RenderRows(container[i].rows, 1) \o <<Tag("</table>")>>)
         \o RenderContainer(container, i + 1)

\* mammoth.convert_to_html(docx_file).value
convert_to_html(d) == RenderContainer(d, 1)

\* re.IGNORECASE on the characters of the model
CaseFold(c) == IF c = "A" THEN "a" ELSE c

\* the first position >= pos that holds no tag: (?:<[^>]+>)* is greedy and what
\* follows it never matches a tag
SkipTags(h, pos) ==
    LET stops == {i \in pos..Len(h) : ~IsTag(h[i])}
    IN IF stops = {} THEN Len(h) + 1 ELSE CHOOSE i \in stops : \A j \in stops : i <= j

\* the literal character c at position pos
LitAt(h, pos, c, fold) ==
    /\ pos <= Len(h)
    /\ h[pos].k = "c"
    /\ IF fold THEN CaseFold(h[pos].v) = CaseFold(c) ELSE h[pos].v = c

RECURSIVE MatchValue(_, _, _, _, _)
\* the pattern built from value (lines 87-104), from its i-th character on, tried
\* at position pos: the position after the match, 0 when it does not match
MatchValue(h, pos, value, i, in_bracket) ==
    IF i > Len(value) THEN pos
    ELSE LET char == value[i] IN
         IF char = "["
         THEN IF LitAt(h, pos, char, TRUE)
              THEN MatchValue(h, SkipTags(h, pos + 1), value, i + 1, TRUE) ELSE 0
         ELSE IF char = "]"
         THEN IF LitAt(h, SkipTags(h, pos), char, TRUE)
              THEN MatchValue(h, SkipTags(h, pos) + 1, value, i + 1, FALSE) ELSE 0
         ELSE IF char = "$" \/ (in_bracket /\ char \notin {" ", "\t", "\n"})
         THEN IF LitAt(h, pos, char, TRUE)
              THEN MatchValue(h, SkipTags(h, pos + 1), value, i + 1, in_bracket) ELSE 0
         ELSE IF LitAt(h, pos, char, TRUE)
              THEN MatchValue(h, pos + 1, value, i + 1, in_bracket) ELSE 0

\* re.search(pattern, html, re.IGNORECASE): [start, stop) of the leftmost match
search_value(h, value) ==
    LET starts == {s \in 1..Len(h) : MatchValue(h, s, value, 1, FALSE) # 0}
    IN IF starts = {} THEN [found |-> FALSE, start |-> 0, stop |-> 0]
       ELSE LET s == CHOOSE i \in starts : \A j \in starts : i <= j
            IN [found |-> TRUE, start |-> s, stop |-> MatchValue(h, s, value, 1, FALSE)]

\* value in html / html.replace(value, marker, 1): the leftmost literal occurrence
find_literal(h, value) ==
    LET starts == {s \in 1..Len(h) :
                      /\ s + Len(value) - 1 <= Len(h)
                      /\ \A i \in 1..Len(value) : LitAt(h, s + i - 1, value[i], FALSE)}
    IN IF starts = {} THEN [found |-> FALSE, start |-> 0, stop |-> 0]
       ELSE LET s == CHOOSE i \in starts : \A j \in starts : i <= j
            IN [found |-> TRUE, start |-> s, stop |-> s + Len(value)]

\* f"({escaped_label}:)((?:<[^>]+>|\\s)+)" tried at position s: the position after
\* the match, 0 when it does not match
SigMatchStop(h, s, label) ==
    LET key == label \o <<":">>
        g2 == s + Len(key)
        stops == {i \in g2..Len(h) : ~(IsTag(h[i]) \/ IsSpaceAtom(h[i]))}
        e == IF stops = {} THEN Len(h) + 1 ELSE CHOOSE i \in stops : \A j \in stops : i <= j
    IN IF /\ \A i \in 1..Len(key) : LitAt(h, s + i - 1, key[i], FALSE)
          /\ e > g2
       THEN e ELSE 0

RECURSIVE sig_finditer(_, _, _)
\* list(re.finditer(pattern, html)): [start, stop) of each match
sig_finditer(h, pos, label) ==
    LET starts == {s \in pos..Len(h) : SigMatchStop(h, s, label) # 0}
    IN IF starts = {} THEN <<>>
       ELSE LET s == CHOOSE i \in starts : \A j \in starts : i <= j
                e == SigMatchStop(h, s, label)
            IN <<[start |-> s, stop |-> e]>> \o sig_finditer(h, e, label)

Zeros(n) == [i \in 1..n |-> 0]

\* label_counts.get(label): the counter of a label, 0 before it is first seen
CountOf(counts, label) == IF label \in DOMAIN counts THEN counts[label] ELSE 0

\* the bracketed branch (lines 82-113) on the state st = [html, origin, label_counts, log]
align_bracketed(st, placeholder) ==
    LET m == search_value(st.html, placeholder.value)
        lit == find_literal(st.html, placeholder.value)
        hit == IF m.found THEN m ELSE lit
        mk == marker(placeholder.id)
    IN IF hit.found
       THEN [st EXCEPT
               !.html = SubSeq(st.html, 1, hit.start - 1) \o mk
                        \o SubSeq(st.html, hit.stop, Len(st.html)),
               !.origin = SubSeq(st.origin, 1, hit.start - 1) \o Zeros(Len(mk))
                          \o SubSeq(st.origin, hit.stop, Len(st.origin)),
               !.log = Append(st.log, [id |-> placeholder.id, type |-> "bracketed",
                                       label |-> <<>>, replaced |-> TRUE,
                                       at |-> st.origin[hit.start],
                                       took |-> {st.html[i] : i \in hit.start..(hit.stop - 1)}])]
       ELSE [st EXCEPT
               !.log = Append(st.log, [id |-> placeholder.id, type |-> "bracketed",
                                       label |-> <<>>, replaced |-> FALSE, at |-> 0,
                                       took |-> {}])]

\* the signature branch (lines 115-143)
align_signature(st, placeholder) ==
    LET label == placeholder.label
        n == CountOf(st.label_counts, label)
        matches == sig_finditer(st.html, 1, label)
        mk == marker(placeholder.id)
    IN IF n < Len(matches)
       THEN LET match == matches[n + 1]
                g1 == Len(label) + 1
            IN [html |-> SubSeq(st.html, 1, match.start + g1 - 1) \o <<Chr(" ")>> \o mk
                         \o SubSeq(st.html, match.stop, Len(st.html)),
                origin |-> SubSeq(st.origin, 1, match.start + g1 - 1) \o Zeros(1 + Len(mk))
                           \o SubSeq(st.origin, match.stop, Len(st.origin)),
                label_counts |-> [l \in DOMAIN st.label_counts \cup {label} |->
                                     IF l = label THEN n + 1 ELSE st.label_counts[l]],
                log |-> Append(st.log, [id |-> placeholder.id, type |-> "signature_line",
                                        label |-> label, replaced |-> TRUE,
                                        at |-> st.origin[match.start],
                                        took |-> {st.html[i] :
                                                    i \in match.start..(match.stop - 1)}])]
       ELSE [st EXCEPT
               !.label_counts = [l \in DOMAIN st.label_counts \cup {label} |->
                                    IF l = label THEN n ELSE st.label_counts[l]],
               !.log = Append(st.log, [id |-> placeholder.id, type |-> "signature_line",
                                       label |-> label, replaced |-> FALSE, at |-> 0,
                                       took |-> {}])]

\* one iteration of the loop of create_marked_html
align_one(st, placeholder) ==
    IF placeholder.type = "bracketed" THEN align_bracketed(st, placeholder)
    ELSE align_signature(st, placeholder)

\* mutant: the list is processed in the order it is passed in
not_sorted(list) == list

\* sorted(placeholders, key=lambda x: x['start'])
sorted_by_start(list) == SortByKey(list, "start")

\* the state of create_marked_html before its loop
align_start(d) ==
    LET h == convert_to_html(d)
    IN [html |-> h, origin |-> [i \in 1..Len(h) |-> i], label_counts |-> <<>>, log |-> <<>>]

RECURSIVE align_all(_, _, _)
align_all(st, list, i) ==
    IF i > Len(list) THEN st ELSE align_all(align_one(st, list[i]), list, i + 1)

\* create_marked_html(docx_path, placeholders)
create_marked_html(d, list) == align_all(align_start(d), sorted_by_start(list), 1).html

-----------------------------------------------------------------------------
(* main.py: fill_docx_placeholders *)

\* a field of the export payload: the detected field with the user's input attached
\* (an absent input is the empty text: p.get("input") or "")
WithInput(f, input) ==
    [type |-> f.type, value |-> f.value, label |-> f.label, start |-> f.start,
     end |-> f.end, line |-> f.line, metadata |-> f.metadata, id |-> f.id, input |-> input]

\* dict[k] = v on an insertion-ordered dict, kept as a sequence of entries
DictSet(map, k, v) ==
    IF \E i \in 1..Len(map) : map[i].k = k
    THEN [i \in 1..Len(map) |-> IF map[i].k = k THEN [k |-> k, v |-> v] ELSE map[i]]
    ELSE Append(map, [k |-> k, v |-> v])

RECURSIVE build_maps(_, _, _)
\* the loop over placeholders (lines 158-165): [bracket_map, sig_map]
build_maps(list, i, maps) ==
    IF i > Len(list) THEN maps
    ELSE LET p == list[i]
             user_val == Strip(p.input)
         IN IF user_val = <<>> THEN build_maps(list, i + 1, maps)
            ELSE IF p.type = "bracketed"
            THEN build_maps(list, i + 1,
                     [maps EXCEPT !.bracket_map = DictSet(@, p.value, user_val)])
            ELSE build_maps(list, i + 1,
                     [maps EXCEPT !.sig_map = DictSet(@, p.label \o <<":">>, user_val)])

RECURSIVE Replace(_, _, _)
\* t.replace(k, v): every occurrence, left to right, without rescanning
Replace(t, k, v) ==
    LET hits == {i \in 1..Len(t) : OccursAt(t, k, i)}
    IN IF hits = {} THEN t
       ELSE LET i == CHOOSE h \in hits : \A j \in hits : h <= j
            IN SubSeq(t, 1, i - 1) \o v \o Replace(SubSeq(t, i + Len(k), Len(t)), k, v)

\* parts = t.rsplit(k, 1); parts[0] + k + " " + v
AppendAfterLast(t, k, v) ==
    LET hits == {i \in 1..(Len(t) + 1) : OccursAt(t, k, i)}
        i == CHOOSE h \in hits : \A j \in hits : j <= h
    IN SubSeq(t, 1, i - 1) \o k \o <<" ">> \o v

RECURSIVE replace_brackets(_, _, _)
\* for k, v in list(bracket_map.items()): if k in para.text: para.text = ...
replace_brackets(t, bracket_map, i) ==
    IF i > Len(bracket_map) THEN t
    ELSE replace_brackets(IF Contains(t, bracket_map[i].k)
                          THEN Replace(t, bracket_map[i].k, bracket_map[i].v) ELSE t,
                          bracket_map, i + 1)

RECURSIVE replace_signatures(_, _, _)
\* for k, v in list(sig_map.items()): if k in para.text: ...
replace_signatures(t, sig_map, i) ==
    IF i > Len(sig_map) THEN t
    ELSE replace_signatures(IF Contains(t, sig_map[i].k)
                            THEN AppendAfterLast(t, sig_map[i].k, sig_map[i].v) ELSE t,
                            sig_map, i + 1)

\* the body of the loop over container.paragraphs
replace_in_paragraph(t, maps) ==
    replace_signatures(replace_brackets(t, maps.bracket_map, 1), maps.sig_map, 1)

\* whether the loop body assigns para.text
Rewritten(t, maps) ==
    \/ \E i \in 1..Len(maps.bracket_map) : Contains(t, maps.bracket_map[i].k)
    \/ \E i \in 1..Len(maps.sig_map) :
          Contains(replace_brackets(t, maps.bracket_map, 1), maps.sig_map[i].k)

RECURSIVE replace_text_in_run_container(_, _)
\* _replace_text_in_run_container: every paragraph of the container, then the cells of
\* its tables, recursively.  Assigning para.text leaves one plain run.
replace_text_in_run_container(container, maps) ==
    [i \in 1..Len(container) |->
        IF container[i].kind = "p"
        THEN IF Rewritten(container[i].text, maps)
             THEN Para(replace_in_paragraph(container[i].text, maps), FALSE)
             ELSE container[i]
        ELSE Table([r \in 1..Len(container[i].rows) |->
                      [c \in 1..Len(container[i].rows[r]) |->
                          replace_text_in_run_container(container[i].rows[r][c], maps)]])]

fill_docx_placeholders(d, list) ==
    replace_text_in_run_container(d,
        build_maps(list, 1, [bracket_map |-> <<>>, sig_map |-> <<>>]))

-----------------------------------------------------------------------------
(* Alignment: upload_document from the detected list to the marked HTML *)

AlignPieces == {<<"[", "a", "]">>, <<"a", ":", "\t">>, <<"a">>, <<":">>, <<"\t">>, <<"\n">>}

AlignDocs == DocsOf(AlignPieces, MaxPieces, {"flat", "table"})

\* the state after results = detect_placeholders(...)
InitAlign ==
    /\ pc = "detected"
    /\ doc \in AlignDocs
    /\ all_paragraphs = detect_placeholders(doc).all_paragraphs
    /\ full_text = detect_placeholders(doc).full_text
    /\ fields = detect_placeholders(doc).placeholders
    /\ placeholders = <<>>
    /\ sorted_placeholders = <<>>
    /\ idx = 0
    /\ html = <<>>
    /\ origin = <<>>
    /\ label_counts = <<>>
    /\ log = <<>>
    /\ filled = <<>>
    /\ redetected = <<>>
    /\ env = NoEnv
    /\ resp = NoResp
    /\ data = NoData
    /\ guidance = NoGuidance

\* results["placeholders"].sort(key=lambda x: x['line'])
SortByLine ==
    /\ pc = "detected"
    /\ fields' = SortByKey(fields, "line")
    /\ pc' = "sorted"
    /\ UNCHANGED <<doc, all_paragraphs, full_text, placeholders, sorted_placeholders, idx,
                   html, origin, label_counts, log, filled, redetected, env, resp, data, guidance>>

\* create_marked_html(docx_path, placeholders), up to its loop.  upload_document
\* passes the line-sorted list; any ordering of the list may be passed.
CreateMarkedHtmlBegin ==
    /\ pc = "sorted"
    /\ \E p \in Permutations(1..Len(fields)) :
          /\ placeholders' = [i \in 1..Len(fields) |-> fields[p[i]]]
          /\ sorted_placeholders' = sorted_by_start([i \in 1..Len(fields) |-> fields[p[i]]])
    /\ html' = align_start(doc).html
    /\ origin' = align_start(doc).origin
    /\ label_counts' = align_start(doc).label_counts
    /\ log' = align_start(doc).log
    /\ idx' = 0
    /\ pc' = "aligning"
    /\ UNCHANGED <<doc, all_paragraphs, full_text, fields, filled, redetected, env, resp, data, guidance>>

AlignState == [html |-> html, origin |-> origin, label_counts |-> label_counts, log |-> log]

\* one iteration of the loop, on a bracketed field
AlignBracketed ==
    /\ pc = "aligning"
    /\ idx < Len(sorted_placeholders)
    /\ sorted_placeholders[idx + 1].type = "bracketed"
    /\ LET st == align_bracketed(AlignState, sorted_placeholders[idx + 1])
       IN /\ html' = st.html
          /\ origin' = st.origin
          /\ label_counts' = st.label_counts
          /\ log' = st.log
    /\ idx' = idx + 1
    /\ UNCHANGED <<pc, doc, all_paragraphs, full_text, fields, placeholders,
                   sorted_placeholders, filled, redetected, env, resp, data, guidance>>

\* one iteration of the loop, on a signature_line field
AlignSignature ==
    /\ pc = "aligning"
    /\ idx < Len(sorted_placeholders)
    /\ sorted_placeholders[idx + 1].type = "signature_line"
    /\ LET st == align_signature(AlignState, sorted_placeholders[idx + 1])
       IN /\ html' = st.html
          /\ origin' = st.origin
          /\ label_counts' = st.label_counts
          /\ log' = st.log
    /\ idx' = idx + 1
    /\ UNCHANGED <<pc, doc, all_paragraphs, full_text, fields, placeholders,
                   sorted_placeholders, filled, redetected, env, resp, data, guidance>>

\* return html
CreateMarkedHtmlReturn ==
    /\ pc = "aligning"
    /\ idx = Len(sorted_placeholders)
    /\ pc' = "marked"
    /\ UNCHANGED <<doc, all_paragraphs, full_text, fields, placeholders, sorted_placeholders,
                   idx, html, origin, label_counts, log, filled, redetected, env, resp, data, guidance>>

NextAlign ==
    \/ SortByLine
    \/ CreateMarkedHtmlBegin
    \/ AlignBracketed
    \/ AlignSignature
    \/ CreateMarkedHtmlReturn

SpecAlign == InitAlign /\ [][NextAlign]_vars

-----------------------------------------------------------------------------
(* Export: fill_docx_placeholders on the payload's field list, and detection run *)
(* again on the filled document                                                  *)

FillPieces == {<<"[", "a", "]">>, <<"[", ":", "]">>, <<"$", "[", "a", "]">>,
               <<"[", "[", "a", "]", "]">>,
               <<"[">>, <<"a", "]">>, <<"\n">>, <<"a", ":", "\t">>}

FillDocs == DocsOf(FillPieces, MaxTokens, {"flat", "soft", "nested"})

\* the values a user may type into a field; <<>> is no input
Inputs == {<<>>, <<" ">>, <<"a">>, <<"$">>, <<"[", "a", "]">>}

\* the payload of /api/export: the fields detected at upload, each with an input
InitFill ==
    /\ pc = "export"
    /\ doc \in FillDocs
    /\ all_paragraphs = detect_placeholders(doc).all_paragraphs
    /\ full_text = detect_placeholders(doc).full_text
    /\ fields = detect_placeholders(doc).placeholders
    /\ placeholders \in
          {[i \in 1..Len(fields) |-> WithInput(fields[i], ins[i])] :
             ins \in [1..Len(fields) -> Inputs]}
    /\ sorted_placeholders = <<>>
    /\ idx = 0
    /\ html = <<>>
    /\ origin = <<>>
    /\ label_counts = <<>>
    /\ log = <<>>
    /\ filled = <<>>
    /\ redetected = <<>>
    /\ env = NoEnv
    /\ resp = NoResp
    /\ data = NoData
    /\ guidance = NoGuidance

\* filled_docx = fill_docx_placeholders(src, fields)
FillDocxPlaceholders ==
    /\ pc = "export"
    /\ filled' = fill_docx_placeholders(doc, placeholders)
    /\ pc' = "filled"
    /\ UNCHANGED <<doc, all_paragraphs, full_text, fields, placeholders, sorted_placeholders,
                   idx, html, origin, label_counts, log, redetected, env, resp, data, guidance>>

\* detect_placeholders on the filled document
DetectFilled ==
    /\ pc = "filled"
    /\ redetected' = detect_placeholders(filled).placeholders
    /\ pc' = "redetected"
    /\ UNCHANGED <<doc, all_paragraphs, full_text, fields, placeholders, sorted_placeholders,
                   idx, html, origin, label_counts, log, filled, env, resp, data, guidance>>

NextFill == FillDocxPlaceholders \/ DetectFilled

SpecFill == InitFill /\ [][NextFill]_vars

\* the same export over documents of labels, colons and padding
SigPieces == {<<"a">>, <<":">>, <<"\t">>, <<" ">>, <<"\n">>}

SigDocs == DocsOf(SigPieces, MaxPieces, {"flat", "soft"})

SigInputs == {<<>>, <<" ">>, <<"x">>, <<"y">>}

InitSigFill ==
    /\ pc = "export"
    /\ doc \in SigDocs
    /\ all_paragraphs = detect_placeholders(doc).all_paragraphs
    /\ full_text = detect_placeholders(doc).full_text
    /\ fields = detect_placeholders(doc).placeholders
    /\ placeholders \in
          {[i \in 1..Len(fields) |-> WithInput(fields[i], ins[i])] :
             ins \in [1..Len(fields) -> SigInputs]}
    /\ sorted_placeholders = <<>>
    /\ idx = 0
    /\ html = <<>>
    /\ origin = <<>>
    /\ label_counts = <<>>
    /\ log = <<>>
    /\ filled = <<>>
    /\ redetected = <<>>
    /\ env = NoEnv
    /\ resp = NoResp
    /\ data = NoData
    /\ guidance = NoGuidance

SpecSigFill == InitSigFill /\ [][NextFill]_vars

-----------------------------------------------------------------------------
(* main.py: export_filled and docx_to_pdf *)

\* a response of /api/export; a url that is "absent" is a key the body does not have
Response(status, docx, pdf) ==
    [status |-> status, filled_docx_url |-> docx, filled_pdf_url |-> pdf]

\* mutant: a conversion failure is not caught and becomes the response
conversion_failure_raised(r) == Response(500, "absent", "absent")

\* except Exception: resp["filled_pdf_url"] = None
conversion_failure_caught(r) == [r EXCEPT !.filled_pdf_url = "null"]

\* the requests and the behaviour of the collaborators they meet: whether the payload
\* names a file, whether that file was uploaded, whether the fill succeeds, what the
\* two converters do, and whether a PDF of that name is already in the output directory
ExportEnvs ==
    [kind : {"export"}, filename : {"missing", "empty", "given"}, src_exists : BOOLEAN,
     also_pdf : BOOLEAN, fill : {"ok", "raises"},
     docx2pdf : {"raises", "nofile", "ok"}, soffice : {"raises", "nofile", "ok"},
     stale_pdf : BOOLEAN, pdf_exists : BOOLEAN]

InitExport ==
    /\ pc = "export"
    /\ env \in {e \in ExportEnvs : e.pdf_exists = e.stale_pdf}
    /\ resp = NoResp
    /\ doc = <<>>
    /\ all_paragraphs = <<>>
    /\ full_text = <<>>
    /\ fields = <<>>
    /\ placeholders = <<>>
    /\ sorted_placeholders = <<>>
    /\ idx = 0
    /\ html = <<>>
    /\ origin = <<>>
    /\ label_counts = <<>>
    /\ log = <<>>
    /\ filled = <<>>
    /\ redetected = <<>>
    /\ data = NoData
    /\ guidance = NoGuidance

\* export_filled up to the fill: the two checks of the payload, then
\* fill_docx_placeholders, whose exception is the handler's
ExportFill ==
    /\ pc = "export"
    /\ IF env.filename # "given"
       THEN resp' = Response(400, "absent", "absent") /\ pc' = "responded"
       ELSE IF ~env.src_exists
       THEN resp' = Response(404, "absent", "absent") /\ pc' = "responded"
       ELSE IF env.fill = "raises"
       THEN resp' = Response(500, "absent", "absent") /\ pc' = "responded"
       ELSE /\ resp' = Response(0, "url", "absent")
            /\ pc' = IF env.also_pdf THEN "docx2pdf" ELSE "return"
    /\ UNCHANGED <<doc, all_paragraphs, full_text, fields, placeholders, sorted_placeholders,
                   idx, html, origin, label_counts, log, filled, redetected, env,
                   data, guidance>>

\* docx_to_pdf, first converter: an exception is passed over, and so is a run that
\* leaves no file
DocxToPdfDocx2pdf ==
    /\ pc = "docx2pdf"
    /\ IF env.docx2pdf = "raises"
       THEN pc' = "soffice" /\ UNCHANGED <<env, resp>>
       ELSE /\ env' = [env EXCEPT !.pdf_exists = @ \/ env.docx2pdf = "ok"]
            /\ IF env'.pdf_exists
               THEN resp' = [resp EXCEPT !.filled_pdf_url = "url"] /\ pc' = "return"
               ELSE pc' = "soffice" /\ UNCHANGED resp
    /\ UNCHANGED <<doc, all_paragraphs, full_text, fields, placeholders, sorted_placeholders,
                   idx, html, origin, label_counts, log, filled, redetected,
                   data, guidance>>

\* docx_to_pdf, second converter: an exception, or a run that leaves no file, raises
\* HTTPException, which export_filled handles
DocxToPdfSoffice ==
    /\ pc = "soffice"
    /\ IF env.soffice = "raises"
       THEN /\ resp' = conversion_failure_caught(resp)
            /\ pc' = IF resp'.status = 0 THEN "return" ELSE "responded"
            /\ UNCHANGED env
       ELSE /\ env' = [env EXCEPT !.pdf_exists = @ \/ env.soffice = "ok"]
            /\ resp' = IF env'.pdf_exists
                       THEN [resp EXCEPT !.filled_pdf_url = "url"]
                       ELSE conversion_failure_caught(resp)
            /\ pc' = IF resp'.status = 0 THEN "return" ELSE "responded"
    /\ UNCHANGED <<doc, all_paragraphs, full_text, fields, placeholders, sorted_placeholders,
                   idx, html, origin, label_counts, log, filled, redetected,
                   data, guidance>>

\* return resp
ExportReturn ==
    /\ pc = "return"
    /\ resp' = [resp EXCEPT !.status = 200]
    /\ pc' = "responded"
    /\ UNCHANGED <<doc, all_paragraphs, full_text, fields, placeholders, sorted_placeholders,
                   idx, html, origin, label_counts, log, filled, redetected, env,
                   data, guidance>>

NextExport == ExportFill \/ DocxToPdfDocx2pdf \/ DocxToPdfSoffice \/ ExportReturn

SpecExport == InitExport /\ [][NextExport]_vars

-----------------------------------------------------------------------------
(* ai_processor.py: generate_field_guidance, and upload_document attaching hints *)

\* JSON values as json.loads returns them
JNull == [j |-> "null"]
JList == [j |-> "list"]
JStr(t) == [j |-> "string", s |-> t]
JObj(m) == [j |-> "object", members |-> m]

\* dict.get(key): None when the key is absent
Get(d, key) == IF key \in DOMAIN d.members THEN d.members[key] ELSE JNull

\* isinstance(g, dict) and "micro" in g and "long" in g
is_guidance(g) ==
    g.j = "object" /\ "micro" \in DOMAIN g.members /\ "long" \in DOMAIN g.members

\* .strip() exists on strings only: AttributeError on anything else
strip_raises(g) ==
    \/ g.members["micro"].j # "string"
    \/ g.members["long"].j # "string"
    \/ ("demo" \in DOMAIN g.members /\ g.members["demo"].j # "string")

\* {"micro": g["micro"].strip(), "long": g["long"].strip(), "demo": g.get("demo", "").strip()}
guidance_entry(g) ==
    [micro |-> Strip(g.members["micro"].s),
     long |-> Strip(g.members["long"].s),
     demo |-> IF "demo" \in DOMAIN g.members THEN Strip(g.members["demo"].s) ELSE <<>>]

\* placeholders[:120]
MAX_FIELDS == 120

\* the key under which a loop looks a field up: its id, or its 1-based number
key_of(try, list, i) == IF try = "ids" THEN list[i].id ELSE ToString(i)

\* one of the two loops: raises when d is not a dict (no .get) or an entry's value
\* cannot be stripped; otherwise the entries collected
lookup(d, list, try) ==
    LET n == IF try = "ids" THEN Len(list)
             ELSE IF Len(list) < MAX_FIELDS THEN Len(list) ELSE MAX_FIELDS
        hits == {i \in 1..n : is_guidance(Get(d, key_of(try, list, i)))}
    IN IF n = 0 THEN [raised |-> FALSE, guidance_by_id |-> <<>>]
       ELSE IF d.j # "object" THEN [raised |-> TRUE, guidance_by_id |-> <<>>]
       ELSE IF \E i \in hits : strip_raises(Get(d, key_of(try, list, i)))
       THEN [raised |-> TRUE, guidance_by_id |-> <<>>]
       ELSE [raised |-> FALSE,
             guidance_by_id |->
                [id \in {list[i].id : i \in hits} |->
                   guidance_entry(Get(d, key_of(try, list,
                                     CHOOSE i \in hits : list[i].id = id)))]]

\* generate_field_guidance after _call_model: the lookup by id, then by number if the
\* first found nothing
map_response(d, list) ==
    LET first == lookup(d, list, "ids")
    IN IF first.raised \/ DOMAIN first.guidance_by_id # {} THEN first
       ELSE lookup(d, list, "numbers")

\* guidance.get(p["id"], {}).get(name, "")
hint_of(g, id, name) == IF id \in DOMAIN g THEN g[id][name] ELSE <<>>

\* p["hint"], p["hint_long"], p["demo_value"]
attach_hints(list, g) ==
    [i \in 1..Len(list) |->
        [type |-> list[i].type, value |-> list[i].value, label |-> list[i].label,
         start |-> list[i].start, end |-> list[i].end, line |-> list[i].line,
         metadata |-> list[i].metadata, id |-> list[i].id,
         hint |-> hint_of(g, list[i].id, "micro"),
         hint_long |-> hint_of(g, list[i].id, "long"),
         demo_value |-> hint_of(g, list[i].id, "demo")]]

HintPieces == {<<"[", "a", "]">>, <<"a", ":", "\t">>, <<"\n">>}

HintDocs == DocsOf(HintPieces, MaxTokens, {"flat"})

\* what the model may put under a key
EntryValues ==
    {JObj([micro |-> JStr(<<" ", "m">>), long |-> JStr(<<"l", " ">>), demo |-> JStr(<<"d">>)]),
     JObj([micro |-> JStr(<<"m">>), long |-> JStr(<<"l">>)]),
     JObj([micro |-> JStr(<<"m">>)]),
     JObj([micro |-> JNull, long |-> JStr(<<"l">>)]),
     JObj([micro |-> JStr(<<"m">>), long |-> JStr(<<"l">>), demo |-> JNull]),
     JStr(<<"m">>)}

\* the JSON objects the model may answer with for a field list: keyed by id or by
\* number, any subset of the fields present
Objects(list) ==
    {JObj([k \in {key_of(try, list, i) : i \in S} |->
              a[CHOOSE i \in S : key_of(try, list, i) = k]]) :
        try \in {"ids", "numbers"}, S \in SUBSET (1..Len(list)),
        a \in [1..Len(list) -> EntryValues]}

\* a call of the model: it raises, gives no text, gives text that is no JSON, or
\* gives JSON
Replies(list) ==
    {[kind |-> k] : k \in {"raises", "empty", "unparseable"}}
    \cup {[kind |-> "json", value |-> v] : v \in Objects(list) \cup {JList, JNull}}

InitHint ==
    /\ pc = "sorted"
    /\ doc \in HintDocs
    /\ all_paragraphs = detect_placeholders(doc).all_paragraphs
    /\ full_text = detect_placeholders(doc).full_text
    /\ fields = SortByKey(detect_placeholders(doc).placeholders, "line")
    /\ env \in [kind : {"hint"}, api_key : BOOLEAN]
    /\ placeholders = <<>>
    /\ sorted_placeholders = <<>>
    /\ idx = 0
    /\ html = <<>>
    /\ origin = <<>>
    /\ label_counts = <<>>
    /\ log = <<>>
    /\ filled = <<>>
    /\ redetected = <<>>
    /\ resp = NoResp
    /\ data = NoData
    /\ guidance = NoGuidance

\* generate_field_guidance: without a key return {} at once
CheckApiKey ==
    /\ pc = "sorted"
    /\ IF env.api_key THEN pc' = "responses" /\ UNCHANGED guidance
       ELSE pc' = "guided" /\ guidance' = <<>>
    /\ UNCHANGED <<doc, all_paragraphs, full_text, fields, placeholders, sorted_placeholders,
                   idx, html, origin, label_counts, log, filled, redetected, env, resp,
                   data>>

\* _call_model, Responses API: whatever json.loads makes of the text is returned
CallResponses ==
    /\ pc = "responses"
    /\ \E reply \in Replies(fields) :
          IF reply.kind = "json"
          THEN data' = reply.value /\ pc' = "mapping"
          ELSE pc' = "chat" /\ UNCHANGED data
    /\ UNCHANGED <<doc, all_paragraphs, full_text, fields, placeholders, sorted_placeholders,
                   idx, html, origin, label_counts, log, filled, redetected, env, resp,
                   guidance>>

\* _call_model, chat fallback: _extract_json yields an object or None; anything
\* falsy becomes {}
CallChat ==
    /\ pc = "chat"
    /\ \E reply \in Replies(fields) :
          data' = IF reply.kind = "json" /\ reply.value.j = "object"
                     /\ DOMAIN reply.value.members # {}
                  THEN reply.value ELSE JObj(<<>>)
    /\ pc' = "mapping"
    /\ UNCHANGED <<doc, all_paragraphs, full_text, fields, placeholders, sorted_placeholders,
                   idx, html, origin, label_counts, log, filled, redetected, env, resp,
                   guidance>>

\* generate_field_guidance maps the response; an exception leaves upload_document,
\* which has no handler around the call
MapResponse ==
    /\ pc = "mapping"
    /\ IF map_response(data, fields).raised
       THEN pc' = "raised" /\ resp' = [status |-> 500] /\ UNCHANGED guidance
       ELSE /\ guidance' = map_response(data, fields).guidance_by_id
            /\ pc' = "guided"
            /\ UNCHANGED resp
    /\ UNCHANGED <<doc, all_paragraphs, full_text, fields, placeholders, sorted_placeholders,
                   idx, html, origin, label_counts, log, filled, redetected, env, data>>

\* upload_document: the hints of every field, then the response
AttachHints ==
    /\ pc = "guided"
    /\ fields' = attach_hints(fields, guidance)
    /\ resp' = [status |-> 200]
    /\ pc' = "hinted"
    /\ UNCHANGED <<doc, all_paragraphs, full_text, placeholders, sorted_placeholders,
                   idx, html, origin, label_counts, log, filled, redetected, env,
                   data, guidance>>

NextHint == CheckApiKey \/ CallResponses \/ CallChat \/ MapResponse \/ AttachHints

SpecHint == InitHint /\ [][NextHint]_vars

-----------------------------------------------------------------------------
(* Claims about detection *)

\* C1: every detected field satisfies 0 <= start < end <= len(full_text); the slice
\* full_text[start:end] of a bracketed field is its value, that of a signature_line
\* field is non-empty tab/space padding; build_offsets gives, for every paragraph
\* index, the exact offset of that paragraph in full_text.
C1_FieldOffsetsExact ==
    pc = "detected" =>
        /\ \A i \in 1..Len(fields) :
              LET f == fields[i]
                  piece == Slice(full_text, f.start, f.end)
              IN /\ 0 <= f.start /\ f.start < f.end /\ f.end <= Len(full_text)
                 /\ f.type = "bracketed" => piece = f.value
                 /\ f.type = "signature_line" =>
                        /\ piece # <<>>
                        /\ \A k \in 1..Len(piece) : piece[k] \in {" ", "\t"}
        /\ LET para_texts == ParaTexts(all_paragraphs)
               offsets == build_offsets(para_texts)
           IN \A i \in 1..Len(para_texts) :
                 /\ offsets[i] + Len(para_texts[i]) <= Len(full_text)
                 /\ Slice(full_text, offsets[i], offsets[i] + Len(para_texts[i])) = para_texts[i]

\* a bracketed field and a signature line that is not in the first paragraph
C1_Witness ==
    /\ pc = "detected"
    /\ \E i \in 1..Len(fields) : fields[i].type = "bracketed"
    /\ \E i \in 1..Len(fields) : fields[i].type = "signature_line" /\ fields[i].line > 1

\* C2: the ids of one detection run are pairwise distinct, and the index component
\* of an id is the field's position in the start-ordered list.
C2_IdsUnique ==
    pc = "detected" =>
        /\ \A i \in 1..Len(fields) : \A j \in 1..Len(fields) :
              i # j => fields[i].id # fields[j].id
        /\ \A i \in 1..Len(fields) :
              fields[i].id =
                  fields[i].type \o "@L" \o ToString(fields[i].line) \o "@" \o
                  ToString(Cardinality({j \in 1..Len(fields) : fields[j].start < fields[i].start}))

\* two fields of the same type on the same line with the same token text
C2_Witness ==
    /\ pc = "detected"
    /\ \E i \in 1..Len(fields) : \E j \in 1..Len(fields) :
          /\ i # j
          /\ fields[i].type = fields[j].type
          /\ fields[i].line = fields[j].line
          /\ fields[i].value = fields[j].value

\* C10: the flattened list holds every paragraph of the document, those of tables
\* nested in cells included, in the order top-level paragraphs, then cell paragraphs
\* row by row: it is the list of paragraphs the injector's recursive walk rewrites.
C10_FlattenerCoversWalk ==
    pc = "detected" => all_paragraphs = walk(doc, <<>>)

-----------------------------------------------------------------------------
(* Claims about alignment *)

\* the matches of a label's pattern in the HTML as rendered, before the pass
OriginalMatches(label) == sig_finditer(convert_to_html(doc), 1, label)

\* the number of signature fields with this label processed before log entry k
Ordinal(k) ==
    Cardinality({j \in 1..(k - 1) :
                    log[j].type = "signature_line" /\ log[j].label = log[k].label})

\* C3: among the signature-line fields sharing a label, in ascending start order,
\* the n-th replaces the n-th match of the label's pattern in the HTML as it was
\* before the pass, no match is consumed by two of them, and a field whose ordinal
\* exceeds the number of matches inserts no marker.
C3_NthFieldNthMatch ==
    \A k \in 1..Len(log) :
        log[k].type = "signature_line" =>
            LET orig == OriginalMatches(log[k].label)
                n == Ordinal(k)
            IN /\ IF n < Len(orig)
                  THEN log[k].replaced /\ log[k].at = orig[n + 1].start
                  ELSE ~log[k].replaced
               /\ \A j \in 1..(k - 1) :
                     (log[j].type = "signature_line" /\ log[j].label = log[k].label
                      /\ log[j].replaced /\ log[k].replaced) => log[j].at # log[k].at

\* the marker of a field occurs, whole, in the HTML
MarkerIntact(h, id) ==
    \E i \in 1..Len(h) : i + 2 <= Len(h) /\ SubSeq(h, i, i + 2) = marker(id)

\* an atom of some marker
IsMarkerAtom(atom) ==
    \E k \in 1..Len(log) : \E i \in 1..3 : marker(log[k].id)[i] = atom

\* C9: during the pass no part of a marker inserted for an earlier field is matched
\* and replaced by a later field's pattern; every marker, once inserted, is still
\* intact in the HTML.
C9_MarkersNeverRematched ==
    \A k \in 1..Len(log) :
        /\ log[k].replaced => MarkerIntact(html, log[k].id)
        /\ \A atom \in log[k].took : ~IsMarkerAtom(atom)

\* C7: create_marked_html returns the same marked HTML whatever the order in which
\* the field list of the document is passed in.
C7_OrderIndependent ==
    pc = "marked" => html = create_marked_html(doc, fields)

\* a pass over a list passed in another order than the detected one, two markers placed
C7_Witness ==
    /\ pc = "marked"
    /\ placeholders # fields
    /\ Cardinality({k \in 1..Len(log) : log[k].replaced}) >= 2

-----------------------------------------------------------------------------
(* Claims about the value injector *)

\* the index in all_paragraphs of the paragraph that holds the field whole, 0 if the
\* field spans a paragraph boundary
ParagraphOf(f) ==
    LET para_texts == ParaTexts(all_paragraphs)
        offsets == build_offsets(para_texts)
        holds == {p \in 1..Len(para_texts) :
                     offsets[p] <= f.start /\ f.end <= offsets[p] + Len(para_texts[p])}
    IN IF holds = {} THEN 0 ELSE CHOOSE p \in holds : TRUE

\* the text, in document d, of the paragraph at a path
TextAt(d, path) ==
    LET ps == walk(d, <<>>)
    IN ps[CHOOSE i \in 1..Len(ps) : ps[i].path = path].text

HasInput(f) == Strip(f.input) # <<>>

Redetected(value) ==
    \E j \in 1..Len(redetected) :
        redetected[j].type = "bracketed" /\ redetected[j].value = value

\* no input of the list holds a character that belongs to token syntax, so that no
\* token of the filled document is one the user typed
InputsBracketFree ==
    \A i \in 1..Len(placeholders) : \A k \in 1..Len(placeholders[i].input) :
        placeholders[i].input[k] \notin {"[", "]", "$"}

\* C4: round trip. For a bracketed field given a non-empty input, once
\* fill_docx_placeholders has replaced the token (the input is non-empty after
\* trimming and the token lies within one paragraph), detect_placeholders on the
\* filled document does not detect that bracket token again. Stated for the inputs
\* that hold none of "[", "]" and "$".
C4_RoundTrip ==
    (pc = "redetected" /\ InputsBracketFree) =>
        \A i \in 1..Len(placeholders) :
            (/\ placeholders[i].type = "bracketed"
             /\ HasInput(placeholders[i])
             /\ ParagraphOf(placeholders[i]) # 0)
            => ~Redetected(placeholders[i].value)

\* the text of a field in the document: the token, or the colon and its padding
FieldText(f) ==
    IF f.type = "bracketed" THEN f.value ELSE Slice(full_text, f.start - 1, f.end)

\* C5: the text of a field that carries no non-empty input is the same in the filled
\* document, and only blanks of fields that carry an input are rewritten: a paragraph
\* none of whose fields carries an input keeps its text, and so does a field without
\* input inside a paragraph that is rewritten.
C5_FieldsWithoutInputUntouched ==
    pc = "filled" =>
        /\ \A p \in 1..Len(all_paragraphs) :
              (\A i \in 1..Len(placeholders) :
                   ParagraphOf(placeholders[i]) = p => ~HasInput(placeholders[i]))
              => TextAt(filled, all_paragraphs[p].path) = all_paragraphs[p].text
        /\ \A i \in 1..Len(placeholders) :
              (~HasInput(placeholders[i]) /\ ParagraphOf(placeholders[i]) # 0)
              => Contains(TextAt(filled, all_paragraphs[ParagraphOf(placeholders[i])].path),
                          FieldText(placeholders[i]))

-----------------------------------------------------------------------------
(* Claims about export *)

\* docx_to_pdf fails: each converter raises or leaves no file
ConversionFails ==
    /\ env.docx2pdf = "raises" \/ (env.docx2pdf = "nofile" /\ ~env.stale_pdf)
    /\ env.soffice = "raises" \/ (env.soffice = "nofile" /\ ~env.stale_pdf)

FillSucceeds == env.filename = "given" /\ env.src_exists /\ env.fill = "ok"

\* C8: whenever fill_docx_placeholders succeeds, the response of export_filled is a
\* success that holds filled_docx_url, whatever the PDF conversion does; when
\* docx_to_pdf fails (a converter raises, or no PDF file is produced) the response
\* holds filled_pdf_url = null and is never an error response.
C8_ConversionFailureYieldsNull ==
    (pc = "responded" /\ FillSucceeds) =>
        /\ resp.status = 200
        /\ resp.filled_docx_url = "url"
        /\ (env.also_pdf /\ ConversionFails) => resp.filled_pdf_url = "null"
        /\ (env.also_pdf /\ ~ConversionFails) => resp.filled_pdf_url = "url"

\* the fill succeeded, both converters failed, and the response is out
C8_Witness ==
    /\ pc = "responded" /\ FillSucceeds /\ env.also_pdf /\ ConversionFails
    /\ resp.filled_pdf_url = "null"

-----------------------------------------------------------------------------
(* Claims about hints *)

\* C6: every hint-generation failure (no key, both calls raising, a response that is
\* not JSON, a response of the wrong shape) is absorbed: generate_field_guidance
\* never raises, and once upload_document has attached the hints every field without
\* guidance has hint, hint_long and demo_value empty.
C6_HintFailuresAbsorbed ==
    /\ pc # "raised"
    /\ pc = "hinted" =>
          \A i \in 1..Len(fields) :
              fields[i].id \notin DOMAIN guidance =>
                  /\ fields[i].hint = <<>>
                  /\ fields[i].hint_long = <<>>
                  /\ fields[i].demo_value = <<>>

-----------------------------------------------------------------------------
(* Claims about signature lines in the value injector *)

\* C11: for every signature-line field detected in a paragraph and given an input
\* that is non-empty after trimming, fill_docx_placeholders rewrites that paragraph
\* at the occurrence the scanner identified, the paragraph's last colon: the text up
\* to and including that colon is unchanged and the input stands after it.
C11_SigFillAtLastColon ==
    pc = "filled" =>
        \A i \in 1..Len(placeholders) :
            (placeholders[i].type = "signature_line" /\ HasInput(placeholders[i])) =>
                LET p == all_paragraphs[ParagraphOf(placeholders[i])]
                    colon_pos == RFind(p.text, ":")
                    new == TextAt(filled, p.path)
                IN /\ Len(new) > colon_pos + 1
                   /\ Slice(new, 0, colon_pos + 1) = Slice(p.text, 0, colon_pos + 1)
                   /\ Contains(Slice(new, colon_pos + 1, Len(new)),
                               Strip(placeholders[i].input))

-----------------------------------------------------------------------------
(* Claims about the bracket scanner *)

\* C12: every match of detect_bracketed ends at a "]" and begins at the nearest "["
\* before that "]", on the same line, with an optional "$" immediately before it:
\* the value holds exactly one "[" and no newline, and matches do not overlap.
C12_NoNestingCaptured ==
    pc = "detected" =>
        /\ \A i \in 1..Len(fields) :
              fields[i].type = "bracketed" =>
                  LET v == fields[i].value
                      open == IF v[1] = "$" THEN 2 ELSE 1
                  IN /\ v[Len(v)] = "]"
                     /\ v[open] = "["
                     /\ \A k \in (open + 1)..Len(v) : v[k] \notin {"[", "\n"}
        /\ \A i \in 1..Len(fields) : \A j \in 1..Len(fields) :
              (i # j /\ fields[i].type = "bracketed" /\ fields[j].type = "bracketed")
              => (fields[i].end <= fields[j].start \/ fields[j].end <= fields[i].start)

====
